---- MODULE Spec2Model ----
(***************************************************************************)
(* Model of the file converter application: ConversionThread.run           *)
(* (src/app/main.py), FileSelector.open_file_dialog                        *)
(* (src/app/file_selector.py) and the ConverterUI slots (src/app/main.py). *)
(*                                                                         *)
(* RunSpec is one execution of ConversionThread.run, statement by          *)
(* statement, for every (input path, target extension) pair and every      *)
(* result the converters can produce.  Spec is the whole application: the  *)
(* user's events, the UI slots, the worker threads and the queued signals  *)
(* between them; a worker's run is one step of Spec, since run touches     *)
(* nothing but its own fields and the signals it posts.  FairSpec is Spec  *)
(* with the fairness the Qt event loop and the OS scheduler give.          *)
(*                                                                         *)
(* started counts the conversions started, handled is the set of threads   *)
(* whose conversionFinished has reached _on_conversion_finished, aborted   *)
(* says that Qt has aborted the process.                                   *)
(***************************************************************************)
EXTENDS Integers, Sequences, FiniteSets, TLC

VARIABLES ui, threads, dialogs, queue, started, handled, aborted

vars == <<ui, threads, dialogs, queue, started, handled, aborted>>

(***************************************************************************)
(* Bounds                                                                  *)
(***************************************************************************)
\* number of ConversionThread objects created in one behaviour of Spec
MaxThreads == 2

Tids == 1..MaxThreads

\* Python's None, for values that are strings otherwise
None == "None"

(***************************************************************************)
(* Extensions and the collaborators of utils/format_detector.py            *)
(***************************************************************************)
DocumentExts == {"doc", "docx", "odt", "rtf", "txt"}

SpreadsheetExts == {"xls", "xlsx", "ods", "csv"}

PresentationExts == {"ppt", "pptx", "odp"}

PdfExts == {"pdf"}

ImageExts == {"jpg", "jpeg", "png", "bmp", "gif", "tiff", "tif", "svg", "webp", "ico", "heic"}

TableExts == DocumentExts \cup SpreadsheetExts \cup PresentationExts \cup PdfExts \cup ImageExts

\* extensions detect_format may return that the dispatch table does not list
OtherExts == {"md"}

AllExts == TableExts \cup OtherExts

\* alphabetical order of the extensions, the order of Python's sorted() on them
ExtOrder ==
    << "bmp", "csv", "doc", "docx", "gif", "heic", "ico", "jpeg", "jpg", "md",
       "odp", "ods", "odt", "pdf", "png", "ppt", "pptx", "rtf", "svg", "tif",
       "tiff", "txt", "webp", "xls", "xlsx" >>

Rank(e) == CHOOSE i \in 1..Len(ExtOrder) : ExtOrder[i] = e

PathOf(e) == "file." \o e

\* a file without an extension: detect_format finds no format
NoExtPath == "file"

AllPaths == {PathOf(e) : e \in AllExts} \cup {NoExtPath}

\* detect_format(path) -> extension | None
detect_format(path) ==
    IF \E e \in AllExts : path = PathOf(e)
    THEN CHOOSE e \in AllExts : path = PathOf(e)
    ELSE None

\* get_supported_target_formats(extension) -> list[extension], in the
\* collaborator's own order
get_supported_target_formats(ext) ==
    CASE ext \in DocumentExts -> << "txt", "pdf" >>
      [] ext \in ImageExts -> << "png", "jpg" >>
      [] ext \in PdfExts -> << "docx" >>
      [] OTHER -> << >>

(***************************************************************************)
(* sorted(): insertion sort by the alphabetical order                      *)
(***************************************************************************)
RECURSIVE Insert(_, _)
Insert(e, s) ==
    IF s = << >> THEN << e >>
    ELSE IF Rank(e) <= Rank(Head(s)) THEN << e >> \o s
    ELSE << Head(s) >> \o Insert(e, Tail(s))

RECURSIVE sorted(_)
sorted(s) == IF s = << >> THEN << >> ELSE Insert(Head(s), sorted(Tail(s)))

(***************************************************************************)
(* ConversionThread                                                        *)
(***************************************************************************)
Msg(text, args) == [text |-> text, args |-> args]

Sig(name, args) == [sig |-> name, args |-> args]

\* what a convert call can do: return (success, output_file) or raise
Outputs == {None, "out"}

Exceptions == {"err"}

Returns == [kind : {"ret"}, success : BOOLEAN, output : Outputs, exc : {None}]

Raises == [kind : {"raise"}, success : {FALSE}, output : {None}, exc : Exceptions]

Results == Returns \cup Raises

NoThread ==
    [pc |-> "none", input_path |-> "", target_extension |-> "", source_ext |-> None,
     converter |-> None, success |-> FALSE, output_file |-> "", message |-> Msg("", << >>),
     calls |-> << >>, emitted |-> << >>]

\* ConversionThread.__init__
NewThread(input_path, target_extension) ==
    [NoThread EXCEPT !.pc = "start", !.input_path = input_path,
                     !.target_extension = target_extension]

Emit(th, name, args) == [th EXCEPT !.emitted = Append(@, Sig(name, args))]

\* calls is the log of the convert calls made: the converter, the arguments
\* and what the call did
Call(th, conv, args, r) ==
    [th EXCEPT !.calls = Append(@, [conv |-> conv, args |-> args, result |-> r])]

\* the table with csv taken for a document format
ConverterFor_CsvAsDocument(source_ext) ==
    CASE source_ext \in DocumentExts \cup {"csv"} -> "DocumentConverter"
      [] source_ext \in SpreadsheetExts -> "SpreadsheetConverter"
      [] source_ext \in PresentationExts -> "PresentationConverter"
      [] source_ext = "pdf" -> "PdfConverter"
      [] source_ext \in ImageExts -> "ImageConverter"
      [] OTHER -> None

\* the static extension-to-category table
ConverterFor(source_ext) ==
    CASE source_ext \in DocumentExts -> "DocumentConverter"
      [] source_ext \in SpreadsheetExts -> "SpreadsheetConverter"
      [] source_ext \in PresentationExts -> "PresentationConverter"
      [] source_ext = "pdf" -> "PdfConverter"
      [] source_ext \in ImageExts -> "ImageConverter"
      [] OTHER -> None

\* isinstance(converter, CrossConverter)
IsCrossConverter(converter) == converter = "CrossConverter"

\* a call whose exception is swallowed and taken for a failure
Assign_Swallow(th, r, next) ==
    IF r.kind = "ret"
    THEN [th EXCEPT !.success = r.success, !.output_file = r.output, !.pc = next]
    ELSE [th EXCEPT !.success = FALSE, !.output_file = None, !.pc = next]

\* success, output_file = <call>: the assignment happens only when the call returns
Assign(th, r, next) ==
    IF r.kind = "ret"
    THEN [th EXCEPT !.success = r.success, !.output_file = r.output, !.pc = next]
    ELSE [th EXCEPT !.pc = "except", !.message = Msg("An error occurred during conversion: ", << r.exc >>)]

\* line 28
RunStartStep(th) ==
    [Emit(th, "updateProgress", << Msg("Starting conversion...", << >>) >>) EXCEPT !.pc = "detect"]

\* lines 29-53: detection, the early return, the choice of the converter
RunDetectStep(th) ==
    LET source_ext == detect_format(th.input_path) IN
    IF source_ext = None
    THEN [Emit(th, "conversionFinished",
               << FALSE, Msg("Could not detect source file format.", << >>) >>)
            EXCEPT !.pc = "done"]
    ELSE LET converter == ConverterFor(source_ext) IN
         [th EXCEPT !.source_ext = source_ext, !.converter = converter,
                    !.pc = IF converter # None THEN "convert" ELSE "fallback"]

\* the condition of line 56
NeedsCross(th) == ~th.success /\ th.output_file = None

\* lines 54-56: the category converter's convert call
RunConvertStep(th, r) ==
    LET t1 == Emit(th, "updateProgress",
                   << Msg("Converting from .{} to .{}...", << th.source_ext, th.target_extension >>) >>)
        t2 == Call(t1, th.converter, << th.input_path, th.target_extension >>, r)
        t3 == Assign(t2, r, "fallback")
    IN  IF t3.pc = "fallback" /\ NeedsCross(t3) THEN [t3 EXCEPT !.pc = "cross"] ELSE t3

\* lines 57-59: the cross conversion the category converter asked for
RunCrossStep(th, r) ==
    LET t1 == Emit(th, "updateProgress", << Msg("Attempting cross-category conversion...", << >>) >>)
        t2 == Call(t1, "CrossConverter", << th.input_path, th.source_ext, th.target_extension >>, r)
    IN  Assign(t2, r, "fallback")

\* the conditions of lines 61 and 63
FallbackGuard(th) == ~th.success /\ ~IsCrossConverter(th.converter)

\* a fallback that is tried again for as long as it fails
RunFallbackStep_Retry(th, r) ==
    LET t1 == Emit(th, "updateProgress",
                   << Msg("Attempting cross-category conversion (fallback)...", << >>) >>)
        t2 == Call(t1, "CrossConverter", << th.input_path, th.source_ext, th.target_extension >>, r)
    IN  Assign(t2, r, "fallback")

\* lines 64-66: the fallback cross conversion
RunFallbackStep(th, r) ==
    LET t1 == Emit(th, "updateProgress",
                   << Msg("Attempting cross-category conversion (fallback)...", << >>) >>)
        t2 == Call(t1, "CrossConverter", << th.input_path, th.source_ext, th.target_extension >>, r)
    IN  Assign(t2, r, "report")

\* lines 61 and 63 when no fallback is made
RunFallbackSkipStep(th) == [th EXCEPT !.pc = "report"]

\* lines 68-71 and 78
RunReportStep(th) ==
    LET message == IF th.success
                   THEN Msg("Conversion successful! Output: ", << th.output_file >>)
                   ELSE Msg("Conversion failed or is not supported.", << >>)
        t1 == [th EXCEPT !.message = message, !.pc = "done"]
    IN  Emit(t1, "conversionFinished", << t1.success, t1.message >>)

\* an except clause that reports and then falls into the final report again
RunExceptStep_EmitTwice(th) ==
    LET t1 == [th EXCEPT !.success = FALSE, !.pc = "report"]
    IN  Emit(t1, "conversionFinished", << t1.success, t1.message >>)

\* lines 73-78
RunExceptStep(th) ==
    LET t1 == [th EXCEPT !.success = FALSE, !.pc = "done"]
    IN  Emit(t1, "conversionFinished", << t1.success, t1.message >>)

\* what the statement th.pc stands at can make of the thread object
StepsOf(th) ==
    CASE th.pc = "start" -> {RunStartStep(th)}
      [] th.pc = "detect" -> {RunDetectStep(th)}
      [] th.pc = "convert" -> {RunConvertStep(th, r) : r \in Results}
      [] th.pc = "cross" -> {RunCrossStep(th, r) : r \in Results}
      [] th.pc = "fallback" ->
            IF FallbackGuard(th) THEN {RunFallbackStep(th, r) : r \in Results}
            ELSE {RunFallbackSkipStep(th)}
      [] th.pc = "report" -> {RunReportStep(th)}
      [] th.pc = "except" -> {RunExceptStep(th)}
      [] OTHER -> {}

\* lines 27-78: the thread objects run can leave behind when it returns
RECURSIVE RunOutcomes(_)
RunOutcomes(th) ==
    IF th.pc = "done" THEN {th} ELSE UNION {RunOutcomes(new) : new \in StepsOf(th)}

\* the conversionFinished a step emitted, as a queued call of
\* _on_conversion_finished for the UI thread; updateProgress is connected to
\* the progress dialog's setLabelText, which changes nothing the model keeps
Posted(t, old, new) ==
    LET fresh == SubSeq(new.emitted, Len(old.emitted) + 1, Len(new.emitted))
        finished == SelectSeq(fresh, LAMBDA e : e.sig = "conversionFinished")
    IN  [i \in 1..Len(finished) |-> [tid |-> t, sig |-> finished[i].sig, args |-> finished[i].args]]

\* the ConversionThread object is destroyed when nothing refers to it any
\* more: run holds its self until it returns, self.conversion_thread until
\* it is set to None or to the next thread
Referenced(t) == ui.conversion_thread = t

Step(t, new) ==
    /\ ~aborted
    /\ threads' = [threads EXCEPT ![t] = IF new.pc = "done" /\ ~Referenced(t) THEN NoThread ELSE new]
    /\ queue' = queue \o Posted(t, threads[t], new)
    /\ UNCHANGED <<ui, dialogs, started, handled, aborted>>

RunStart(t) ==
    /\ threads[t].pc = "start"
    /\ Step(t, RunStartStep(threads[t]))

RunDetect(t) ==
    /\ threads[t].pc = "detect"
    /\ Step(t, RunDetectStep(threads[t]))

RunConvert(t) ==
    /\ threads[t].pc = "convert"
    /\ \E r \in Results : Step(t, RunConvertStep(threads[t], r))

RunCross(t) ==
    /\ threads[t].pc = "cross"
    /\ \E r \in Results : Step(t, RunCrossStep(threads[t], r))

RunFallback(t) ==
    /\ threads[t].pc = "fallback"
    /\ FallbackGuard(threads[t])
    /\ \E r \in Results : Step(t, RunFallbackStep(threads[t], r))

RunFallbackSkip(t) ==
    /\ threads[t].pc = "fallback"
    /\ ~FallbackGuard(threads[t])
    /\ Step(t, RunFallbackSkipStep(threads[t]))

RunReport(t) ==
    /\ threads[t].pc = "report"
    /\ Step(t, RunReportStep(threads[t]))

RunExcept(t) ==
    /\ threads[t].pc = "except"
    /\ Step(t, RunExceptStep(threads[t]))

\* ConversionThread.run as one step
Run(t) ==
    /\ threads[t].pc = "start"
    /\ \E new \in RunOutcomes(threads[t]) : Step(t, new)

ThreadNext(t) ==
    \/ RunStart(t)
    \/ RunDetect(t)
    \/ RunConvert(t)
    \/ RunCross(t)
    \/ RunFallback(t)
    \/ RunFallbackSkip(t)
    \/ RunReport(t)
    \/ RunExcept(t)

(***************************************************************************)
(* ConverterUI and FileSelector                                            *)
(*                                                                         *)
(* ui holds the widgets' fields the slots read or write.  The source       *)
(* format combo's current text is display only and is not kept.            *)
(* ui.pc is "wait" while the UI thread is blocked in QThread.wait().       *)
(* dialogs[d] is the QProgressDialog created for the d-th conversion; its   *)
(* label and the text of a message box are display only and are not kept.  *)
(***************************************************************************)
\* the files the file dialog offers; "" is a cancelled dialog
DialogPaths == {PathOf("docx"), PathOf("pdf"), PathOf("md"), NoExtPath}

\* QComboBox.addItems on an empty combo with a placeholder text: the current
\* index becomes 0 or stays -1, depending on the Qt build
AddItemsIndex == {-1, 0}

\* the kind of the last QMessageBox shown
NoBox == "none"

NoDialog == [visible |-> FALSE]

InitUI ==
    [file_path_input |-> "", current_source_file |-> "",
     source_enabled |-> FALSE,
     target_items |-> << >>, target_index |-> -1,
     target_placeholder |-> "Select target...", target_enabled |-> FALSE,
     convert_enabled |-> FALSE, status_label |-> "Ready.",
     progress_dialog |-> 0, conversion_thread |-> 0,
     msgbox |-> NoBox, pc |-> "idle"]

\* QComboBox.currentText
currentText(u) == IF u.target_index = -1 THEN "" ELSE u.target_items[u.target_index + 1]

\* QComboBox.clear
clearTargets(u) == [u EXCEPT !.target_items = << >>, !.target_index = -1]

NotATarget == {"", "No supported conversions", "Select target..."}

update_convert_button_state(u) ==
    LET file_selected == u.file_path_input # ""
        target_format_selected == currentText(u) \notin NotATarget
    IN  [u EXCEPT !.convert_enabled = file_selected /\ target_format_selected]

on_file_selected(u, file_path) ==
    LET u1 == [u EXCEPT !.file_path_input = file_path] IN
    IF file_path # ""
    THEN [update_convert_button_state([u1 EXCEPT !.source_enabled = TRUE, !.target_enabled = TRUE])
            EXCEPT !.status_label = "File selected. Choose target format."]
    ELSE [clearTargets(u1) EXCEPT !.source_enabled = FALSE,
                                  !.target_placeholder = "Select target...",
                                  !.target_enabled = FALSE,
                                  !.convert_enabled = FALSE,
                                  !.status_label = "Ready."]

on_target_formats_updated(u, target_formats, idx) ==
    LET u1 == clearTargets(u) IN
    update_convert_button_state(
        IF target_formats # << >>
        THEN [u1 EXCEPT !.target_items = sorted(target_formats), !.target_index = idx,
                        !.target_placeholder = "Select target...", !.target_enabled = TRUE]
        ELSE [u1 EXCEPT !.target_placeholder = "No supported conversions",
                        !.target_enabled = FALSE])

\* open_file_dialog without the empty targetFormatsUpdated for a file whose
\* format is not detected
open_file_dialog_KeepTargets(u, file_path, idx) ==
    LET u1 == on_file_selected([u EXCEPT !.current_source_file = file_path], file_path)
        source_ext == detect_format(file_path)
    IN  IF file_path # "" /\ source_ext # None
        THEN on_target_formats_updated(u1, get_supported_target_formats(source_ext), idx)
        ELSE IF file_path # "" THEN u1
        ELSE on_target_formats_updated(u1, << >>, idx)

\* FileSelector.open_file_dialog with the dialog's result file_path
open_file_dialog(u, file_path, idx) ==
    LET u1 == on_file_selected([u EXCEPT !.current_source_file = file_path], file_path)
        source_ext == detect_format(file_path)
    IN  IF file_path # "" /\ source_ext # None
        THEN on_target_formats_updated(u1, get_supported_target_formats(source_ext), idx)
        ELSE on_target_formats_updated(u1, << >>, idx)

\* a visible window-modal progress dialog blocks input to the main window
Modal == \E d \in Tids : dialogs[d].visible

\* the UI thread is in its event loop and the main window takes input
Interactive == ~aborted /\ ui.pc = "idle" /\ ~Modal

\* the Browse button
Browse ==
    /\ Interactive
    /\ \E file_path \in DialogPaths \cup {""}, idx \in AddItemsIndex :
          ui' = open_file_dialog(ui, file_path, idx)
    /\ UNCHANGED <<threads, dialogs, queue, started, handled, aborted>>

\* the user picks item i of the target combo: currentIndexChanged
SelectTarget ==
    /\ Interactive
    /\ ui.target_enabled
    /\ \E i \in 0..(Len(ui.target_items) - 1) :
          /\ i # ui.target_index
          /\ ui' = update_convert_button_state([ui EXCEPT !.target_index = i])
    /\ UNCHANGED <<threads, dialogs, queue, started, handled, aborted>>

\* lines 209-226 of _start_conversion: the d-th conversion
start_conversion(u, d) ==
    [u EXCEPT !.status_label = "Conversion in progress...",
              !.convert_enabled = FALSE,
              !.progress_dialog = d,
              !.conversion_thread = d]

\* the Convert button with an input path and a target: a thread is started
StartConversion ==
    /\ Interactive
    /\ ui.convert_enabled
    /\ ui.file_path_input # ""
    /\ currentText(ui) # ""
    /\ started < MaxThreads
    /\ LET d == started + 1
           old == ui.conversion_thread
       IN  /\ ui' = start_conversion(ui, d)
           /\ dialogs' = [dialogs EXCEPT ![d] = [visible |-> TRUE]]
           /\ threads' = [t \in Tids |->
                            IF t = d THEN NewThread(ui.file_path_input, currentText(ui))
                            ELSE IF t = old /\ threads[t].pc = "done" THEN NoThread
                            ELSE threads[t]]
           /\ started' = d
    /\ UNCHANGED <<queue, handled, aborted>>

\* the Convert button without an input path or a target: lines 202-207
StartConversionRefused ==
    /\ Interactive
    /\ ui.convert_enabled
    /\ ui.file_path_input = "" \/ currentText(ui) = ""
    /\ ui' = [ui EXCEPT !.msgbox = "warning"]
    /\ UNCHANGED <<threads, dialogs, queue, started, handled, aborted>>

\* the progress dialog has no Cancel button, but it is still a dialog the
\* user can close (the window's close control, the Escape key)
DismissProgressDialog ==
    /\ ~aborted
    /\ ui.pc = "idle"
    /\ \E d \in Tids :
          /\ dialogs[d].visible
          /\ dialogs' = [dialogs EXCEPT ![d].visible = FALSE]
    /\ UNCHANGED <<ui, threads, queue, started, handled, aborted>>

\* lines 230-242 of _on_conversion_finished, up to the wait
on_conversion_finished(u, success, message) ==
    [u EXCEPT !.convert_enabled = TRUE,
              !.status_label = IF success THEN "Conversion Complete!" ELSE "Conversion Failed.",
              !.msgbox = IF success THEN "information" ELSE "critical",
              !.pc = IF u.conversion_thread # 0 THEN "wait" ELSE "idle"]

\* _on_conversion_finished, called for the queued conversionFinished
OnConversionFinished ==
    /\ ~aborted
    /\ ui.pc = "idle"
    /\ queue # << >>
    /\ ui' = on_conversion_finished(ui, Head(queue).args[1], Head(queue).args[2])
    /\ dialogs' = [dialogs EXCEPT ![ui.progress_dialog].visible = FALSE]
    /\ queue' = Tail(queue)
    /\ handled' = handled \cup {Head(queue).tid}
    /\ UNCHANGED <<threads, started, aborted>>

\* lines 243-244: wait() returns once the thread's run has returned
ThreadWaitReturn ==
    /\ ~aborted
    /\ ui.pc = "wait"
    /\ threads[ui.conversion_thread].pc = "done"
    /\ ui' = [ui EXCEPT !.conversion_thread = 0, !.pc = "idle"]
    /\ threads' = [threads EXCEPT ![ui.conversion_thread] = NoThread]
    /\ UNCHANGED <<dialogs, queue, started, handled, aborted>>

\* a ConversionThread that self.conversion_thread no longer refers to while
\* its run has not returned
Orphan(t) == threads[t].pc \notin {"none", "done"} /\ ui.conversion_thread # t

\* the QThread object of an orphan is destroyed while its thread is running:
\* Qt aborts the process (and nothing of it is left), or the thread runs on
DestroyedWhileRunning ==
    /\ ~aborted
    /\ \E t \in Tids : Orphan(t)
    /\ aborted' = TRUE
    /\ ui' = InitUI
    /\ threads' = [t \in Tids |-> NoThread]
    /\ dialogs' = [d \in Tids |-> NoDialog]
    /\ queue' = << >>
    /\ UNCHANGED <<started, handled>>

(***************************************************************************)
(* Specifications                                                          *)
(***************************************************************************)
Init ==
    /\ ui = InitUI
    /\ threads = [t \in Tids |-> NoThread]
    /\ dialogs = [d \in Tids |-> NoDialog]
    /\ queue = << >>
    /\ started = 0
    /\ handled = {}
    /\ aborted = FALSE

Worker == \E t \in Tids : Run(t)

Next ==
    \/ Browse
    \/ SelectTarget
    \/ StartConversion
    \/ StartConversionRefused
    \/ DismissProgressDialog
    \/ OnConversionFinished
    \/ ThreadWaitReturn
    \/ DestroyedWhileRunning
    \/ Worker

Spec == Init /\ [][Next]_vars

\* the event loop handles every queued call, wait() returns for a finished
\* thread and the scheduler runs every worker thread
Fairness ==
    /\ WF_vars(OnConversionFinished)
    /\ WF_vars(ThreadWaitReturn)
    /\ \A t \in Tids : WF_vars(Run(t))

FairSpec == Spec /\ Fairness

\* one execution of ConversionThread.run, for every input path and target
RunTargets == {"pdf", "png"}

RunInit ==
    /\ ui = [InitUI EXCEPT !.conversion_thread = 1]
    /\ \E p \in AllPaths, x \in RunTargets :
          threads = [t \in Tids |-> IF t = 1 THEN NewThread(p, x) ELSE NoThread]
    /\ dialogs = [d \in Tids |-> NoDialog]
    /\ queue = << >>
    /\ started = 1
    /\ handled = {}
    /\ aborted = FALSE

RunNext == ThreadNext(1)

RunSpec == RunInit /\ [][RunNext]_vars

(***************************************************************************)
(* Properties of ConversionThread.run (RunSpec)                            *)
(***************************************************************************)
IndicesOf(s, Test(_)) == {i \in DOMAIN s : Test(s[i])}

FinishedEmissions(th) == IndicesOf(th.emitted, LAMBDA e : e.sig = "conversionFinished")

CrossCalls(th) == IndicesOf(th.calls, LAMBDA c : c.conv = "CrossConverter")

CategoryCalls(th) == IndicesOf(th.calls, LAMBDA c : c.conv # "CrossConverter")

RaisedCalls(th) == IndicesOf(th.calls, LAMBDA c : c.result.kind = "raise")

CrossArgs(th) == << th.input_path, detect_format(th.input_path), th.target_extension >>

\* the (success, message) of the conversionFinished emitted last
Outcome(th) == th.emitted[Len(th.emitted)].args

\* C1: every run emits conversionFinished exactly once, on every path, as the
\* last signal it emits: never twice, once when run has returned, and a run
\* that has not returned can take a step
C1_SingleTerminalOutcome ==
    \A t \in Tids :
        LET th == threads[t] IN
        /\ Cardinality(FinishedEmissions(th)) <= 1
        /\ th.pc = "done" <=> Cardinality(FinishedEmissions(th)) = 1
        /\ FinishedEmissions(th) # {} => FinishedEmissions(th) = {Len(th.emitted)}
        /\ th.pc \notin {"none", "done"} => ENABLED ThreadNext(t)

\* a run that ended in the except clause and reported once
C1_Witness ==
    /\ threads[1].pc = "done"
    /\ RaisedCalls(threads[1]) # {}
    /\ Cardinality(FinishedEmissions(threads[1])) = 1

\* C2: when the category converter returned success = False or no output,
\* CrossConverter.convert has been called with (input path, source extension,
\* target extension) by the time the outcome is reported
C2_CrossAfterFailureOrNoOutput ==
    \A t \in Tids :
        LET th == threads[t] IN
        (/\ th.pc = "done"
         /\ \E i \in CategoryCalls(th) :
               /\ th.calls[i].result.kind = "ret"
               /\ ~th.calls[i].result.success \/ th.calls[i].result.output = None)
        => \E j \in CrossCalls(th) : th.calls[j].args = CrossArgs(th)

\* the dispatch table, extension by extension
CategoryTable ==
    [e \in AllExts |->
        IF e \in {"doc", "docx", "odt", "rtf", "txt"} THEN "DocumentConverter"
        ELSE IF e \in {"xls", "xlsx", "ods", "csv"} THEN "SpreadsheetConverter"
        ELSE IF e \in {"ppt", "pptx", "odp"} THEN "PresentationConverter"
        ELSE IF e \in {"pdf"} THEN "PdfConverter"
        ELSE IF e \in {"jpg", "jpeg", "png", "bmp", "gif", "tiff", "tif", "svg", "webp", "ico", "heic"}
             THEN "ImageConverter"
        ELSE None]

\* C7: the category converter is the table's entry for the re-detected
\* extension; it is called at most once, with (input path, target extension),
\* and exactly once when the run got past its call; for an extension outside
\* the table no category converter is called and the first call is the cross
\* converter's
C7_StaticDispatch ==
    \A t \in Tids :
        LET th == threads[t]
            ext == detect_format(th.input_path)
        IN  th.pc \notin {"none", "start", "detect"} /\ ext # None =>
            /\ th.source_ext = ext
            /\ th.converter = CategoryTable[ext]
            /\ Cardinality(CategoryCalls(th)) <= 1
            /\ \A i \in CategoryCalls(th) :
                  /\ i = 1
                  /\ th.calls[i].conv = CategoryTable[ext]
                  /\ th.calls[i].args = << th.input_path, th.target_extension >>
            /\ CategoryTable[ext] # None /\ th.pc # "convert" => Cardinality(CategoryCalls(th)) = 1
            /\ CategoryTable[ext] = None /\ th.pc = "done" =>
                  /\ CategoryCalls(th) = {}
                  /\ th.calls # << >>
                  /\ th.calls[1].conv = "CrossConverter"
                  /\ th.calls[1].args = CrossArgs(th)

\* a spreadsheet run that called its category converter
C7_Witness ==
    /\ threads[1].pc = "done"
    /\ threads[1].source_ext = "csv"
    /\ Cardinality(CategoryCalls(threads[1])) = 1
    /\ threads[1].calls[1].conv = "SpreadsheetConverter"

\* C8: CrossConverter.convert is called at most twice in a run
C8_AtMostTwoCrossCalls ==
    \A t \in Tids : Cardinality(CrossCalls(threads[t])) <= 2

\* a run that called the cross converter twice
C8_Witness ==
    /\ threads[1].pc = "done"
    /\ Cardinality(CrossCalls(threads[1])) = 2

\* C9: once the cross converter has been tried in a run, it is not called a
\* second time with the same arguments
C9_NoDoubleTry ==
    \A t \in Tids :
        \A i, j \in CrossCalls(threads[t]) :
            threads[t].calls[i].args = threads[t].calls[j].args => i = j

\* C10: a call that raised is the last call of the run, and the run then
\* reports (False, 'An error occurred during conversion: ...'); success is
\* reported only when the last call made returned success = True
C10_ExceptionEndsRun ==
    \A t \in Tids :
        LET th == threads[t] IN
        /\ \A i \in RaisedCalls(th) :
              /\ i = Len(th.calls)
              /\ th.pc \in {"except", "done"}
              /\ th.pc = "done" =>
                    /\ Outcome(th)[1] = FALSE
                    /\ Outcome(th)[2] = Msg("An error occurred during conversion: ",
                                            << th.calls[i].result.exc >>)
        /\ th.pc = "done" /\ Outcome(th)[1] =>
              /\ th.calls # << >>
              /\ th.calls[Len(th.calls)].result.kind = "ret"
              /\ th.calls[Len(th.calls)].result.success

\* the category converter raised: no cross conversion, an error is reported
C10_Witness ==
    /\ threads[1].pc = "done"
    /\ Len(threads[1].calls) = 1
    /\ threads[1].calls[1].conv = "DocumentConverter"
    /\ threads[1].calls[1].result.kind = "raise"
    /\ Outcome(threads[1])[1] = FALSE

(***************************************************************************)
(* Properties of the application (Spec, FairSpec)                          *)
(***************************************************************************)
\* the conversions started whose conversionFinished has not been handled yet
InFlight == {t \in Tids : t <= started /\ t \notin handled}

\* the UI after _on_conversion_finished has returned
IdleAfterFinish ==
    /\ ui.pc = "idle"
    /\ ~Modal
    /\ ui.convert_enabled
    /\ ui.status_label \in {"Conversion Complete!", "Conversion Failed."}
    /\ ui.conversion_thread = 0

\* C3: every conversion started reaches _on_conversion_finished, and the UI
\* is then idle: the progress dialog closed, the Convert button enabled, the
\* status label set to the result and conversion_thread None
C3_ConversionFinishes ==
    \A t \in Tids : (t \in InFlight) ~> (t \in handled /\ IdleAfterFinish)

\* C4: at most one conversion is in flight, and the Convert button is
\* disabled for as long as one is
C4_OneConversionInFlight ==
    ~aborted =>
        /\ Cardinality(InFlight) <= 1
        /\ InFlight # {} => ~ui.convert_enabled

\* C5: with no conversion in progress and no slot running, the Convert button
\* is enabled exactly when a file is selected and the target combo's current
\* text is a target extension
C5_ButtonFollowsSelection ==
    ~aborted /\ InFlight = {} /\ ui.pc = "idle" =>
        (ui.convert_enabled <=>
            ui.file_path_input # "" /\ currentText(ui) \notin NotATarget)

IsSorted(s) == \A i, j \in DOMAIN s : i < j => Rank(s[i]) <= Rank(s[j])

Count(s, x) == Cardinality({i \in DOMAIN s : s[i] = x})

IsPermutation(s, r) ==
    /\ Len(s) = Len(r)
    /\ \A i \in DOMAIN s : Count(s, s[i]) = Count(r, s[i])

\* C6: the target combo lists, in sorted order, exactly the target formats of
\* the detected format of the file shown in the file path field; with no file
\* or no detected format it is empty and disabled
C6_TargetsOfShownFile ==
    LET p == ui.file_path_input
        ext == detect_format(p)
    IN  IF p # "" /\ ext # None
        THEN /\ IsPermutation(ui.target_items, get_supported_target_formats(ext))
             /\ IsSorted(ui.target_items)
        ELSE /\ ui.target_items = << >>
             /\ ~ui.target_enabled

\* a file of no detected format is shown while a conversion of a document,
\* selected before it, is running
C6_Witness ==
    /\ ui.file_path_input = NoExtPath
    /\ ui.target_items = << >>
    /\ threads[1].pc = "start"
    /\ threads[1].input_path = PathOf("docx")

====
